---- MODULE Spec2Model ----
(***************************************************************************)
(* A model of lock_files.py: the AESCipher codec (padding, CBC framing,    *)
(* base64 blob) and the per-file lock/unlock transition with its           *)
(* overwrite / continue-on-error policy, driven by run().                  *)
(*                                                                         *)
(* Bytes are integers 0..255 and byte strings are sequences of them.       *)
(* The interpreter modelled is Python 3 (binascii.Error is a ValueError).  *)
(***************************************************************************)
EXTENDS Integers, Sequences, FiniteSets, TLC

\* ------------------------------------------------------------------------
\* Byte-string helpers (Python slicing and repetition)
\* ------------------------------------------------------------------------
Rep(b, n) == [i \in 1..n |-> b]

Max(a, b) == IF a > b THEN a ELSE b

Min(a, b) == IF a < b THEN a ELSE b

\* s[:n] for n >= 0
Take(s, n) == SubSeq(s, 1, Min(n, Len(s)))

\* s[n:] for n >= 0
Drop(s, n) == SubSeq(s, n + 1, Len(s))

\* s[:-u] for u >= 0 : Python reads -0 as 0, and clamps -u below -len(s)
SliceToNeg(s, u) == IF u = 0 THEN <<>> ELSE SubSeq(s, 1, Max(Len(s) - u, 0))

\* A variant of endswith that takes the empty suffix to match nothing.
EndsWith_nonempty(s, t) ==
    /\ Len(t) > 0
    /\ Len(t) <= Len(s)
    /\ SubSeq(s, Len(s) - Len(t) + 1, Len(s)) = t

\* s.endswith(t)
EndsWith(s, t) ==
    /\ Len(t) <= Len(s)
    /\ SubSeq(s, Len(s) - Len(t) + 1, Len(s)) = t

\* Outcomes of a call: a value, or the exception it raises.
Ok(v) == [ok |-> TRUE, val |-> v, exc |-> "none"]

Raise(e) == [ok |-> FALSE, val |-> <<>>, exc |-> e]

\* ------------------------------------------------------------------------
\* AESCipher
\* ------------------------------------------------------------------------
m_bs == 32

AES_block_size == 16

\* A variant of the table whose entries are filled with zero bytes
\* instead of the count.
m_pad_zero(i) == IF i = 0 THEN Rep(m_bs, m_bs * m_bs) ELSE Rep(0, i)

\* m_pad[i]: the byte i repeated i times; entry 0 is the "special case",
\* which in the Python 3 branch is (32 bytes of 32) repeated 32 times.
m_pad(i) == IF i = 0 THEN Rep(m_bs, m_bs * m_bs) ELSE Rep(i, i)

\* A variant of _pad that adds nothing to a whole number of blocks: its
\* pad count 0 picks entry 0 of the table.
_pad_mod(s) ==
    LET b == Len(s) % m_bs
        p == (m_bs - b) % m_bs
    IN  s \o m_pad(p)

_pad(s) ==
    LET b == Len(s) % m_bs
        p == m_bs - b
    IN  s \o m_pad(p)

\* _unpad raises IndexError on s[-1] of an empty string.
_unpad(s) ==
    IF Len(s) = 0 THEN Raise("IndexError")
    ELSE LET u == s[Len(s)] IN Ok(SliceToNeg(s, u))

\* AESCipher.__init__: the key is the password cut or padded to 32 bytes.
AESCipher(key) == IF Len(key) >= m_bs THEN Take(key, m_bs) ELSE _pad(key)

\* The block cipher of the Crypto library, as a keyed bijection on bytes:
\* position i of a block is shifted by a byte derived from the key.
KeyByte(k, i) ==
    LET j == ((i - 1) % AES_block_size) + 1
    IN  (k[j] + 3 * k[j + AES_block_size]) % 256

\* CBC: each block is combined with the previous ciphertext block (the IV
\* for the first) before the keyed bijection is applied.
CBCEncrypt(k, iv, raw) ==
    LET c[i \in 1..Len(raw)] ==
            LET prev == IF i <= AES_block_size THEN iv[i] ELSE c[i - AES_block_size]
            IN  (raw[i] + prev + KeyByte(k, i)) % 256
    IN  [i \in 1..Len(raw) |-> c[i]]

CBCDecrypt(k, iv, ct) ==
    [i \in 1..Len(ct) |->
        LET prev == IF i <= AES_block_size THEN iv[i] ELSE ct[i - AES_block_size]
        IN  (ct[i] - prev - KeyByte(k, i)) % 256]

\* ------------------------------------------------------------------------
\* base64 (standard alphabet), on ASCII codes
\* ------------------------------------------------------------------------
B64Pad == 61

B64Char(v) ==
    IF v < 26 THEN 65 + v
    ELSE IF v < 52 THEN 97 + (v - 26)
    ELSE IF v < 62 THEN 48 + (v - 52)
    ELSE IF v = 62 THEN 43 ELSE 47

\* The sextet a character stands for, 64 when it is not in the alphabet.
B64Val(c) ==
    IF c >= 65 /\ c <= 90 THEN c - 65
    ELSE IF c >= 97 /\ c <= 122 THEN c - 97 + 26
    ELSE IF c >= 48 /\ c <= 57 THEN c - 48 + 52
    ELSE IF c = 43 THEN 62
    ELSE IF c = 47 THEN 63 ELSE 64

b64encode(b) ==
    LET n == Len(b)
        at(i) == IF i <= n THEN b[i] ELSE 0
    IN  [j \in 1..(4 * ((n + 2) \div 3)) |->
            LET g == (j - 1) \div 4
                k == (j - 1) % 4
                b0 == at(3 * g + 1)
                b1 == at(3 * g + 2)
                b2 == at(3 * g + 3)
            IN  IF k = 0 THEN B64Char(b0 \div 4)
                ELSE IF k = 1 THEN B64Char((b0 % 4) * 16 + b1 \div 16)
                ELSE IF k = 2 THEN
                    IF 3 * g + 2 > n THEN B64Pad
                    ELSE B64Char((b1 % 16) * 4 + b2 \div 64)
                ELSE IF 3 * g + 3 > n THEN B64Pad ELSE B64Char(b2 % 64)]

\* The scan of binascii.a2b_base64 (non-strict): characters outside the
\* alphabet are dropped, a complete run of '=' ends the input, and data
\* that stops inside a quad is an error.  a2b_step is one turn of its
\* loop on the scan state: the sextets read, the '=' seen in a row, and
\* whether the padding has ended the input.
a2b_step(st, ch) ==
    LET quad_pos == Len(st.sextets) % 4 IN
    IF st.stop THEN st
    ELSE IF ch = B64Pad THEN
        IF quad_pos >= 2 /\ quad_pos + st.pads + 1 >= 4
        THEN [st EXCEPT !.stop = TRUE]
        ELSE IF quad_pos >= 2 THEN [st EXCEPT !.pads = @ + 1] ELSE st
    ELSE IF B64Val(ch) >= 64 THEN st
    ELSE [st EXCEPT !.pads = 0, !.sextets = Append(@, B64Val(ch))]

\* The loop over s[lo..hi], split in halves to keep the evaluation shallow.
RECURSIVE a2b_scan(_, _, _, _)
a2b_scan(s, lo, hi, st) ==
    IF lo > hi THEN st
    ELSE IF lo = hi THEN a2b_step(st, s[lo])
    ELSE LET mid == (lo + hi) \div 2
             left == a2b_scan(s, lo, mid, st)
         IN  IF left.stop THEN left ELSE a2b_scan(s, mid + 1, hi, left)

b64decode(s) ==
    LET r == a2b_scan(s, 1, Len(s), [stop |-> FALSE, pads |-> 0, sextets |-> <<>>])
        d == r.sextets
        n == (Len(d) * 6) \div 8
    IN  IF ~r.stop /\ Len(d) % 4 # 0 THEN Raise("ValueError")
        ELSE Ok([t \in 1..n |->
                LET g == (t - 1) \div 3
                    k == (t - 1) % 3
                IN  IF k = 0 THEN d[4 * g + 1] * 4 + d[4 * g + 2] \div 16
                    ELSE IF k = 1 THEN (d[4 * g + 2] % 16) * 16 + d[4 * g + 3] \div 4
                    ELSE (d[4 * g + 3] % 4) * 64 + d[4 * g + 4]])

\* encrypt(raw) with the IV the random source delivered.
encrypt(m_key, iv, raw) == b64encode(iv \o CBCEncrypt(m_key, iv, _pad(raw)))

\* A variant of decrypt that hands any ciphertext length to the cipher.
decrypt_anylen(m_key, enc) ==
    LET dec == b64decode(enc) IN
    IF ~dec.ok THEN dec
    ELSE LET iv == Take(dec.val, AES_block_size)
             ct == Drop(dec.val, AES_block_size)
         IN  IF Len(iv) # AES_block_size THEN Raise("ValueError")
             ELSE _unpad(CBCDecrypt(m_key, iv, ct))

\* decrypt(enc): AES.new rejects an IV that is not 16 bytes and
\* cipher.decrypt rejects data that is not a multiple of 16 bytes, both
\* with ValueError; an empty ciphertext decrypts to the empty string.
decrypt(m_key, enc) ==
    LET dec == b64decode(enc) IN
    IF ~dec.ok THEN dec
    ELSE LET iv == Take(dec.val, AES_block_size)
             ct == Drop(dec.val, AES_block_size)
         IN  IF Len(iv) # AES_block_size THEN Raise("ValueError")
             ELSE IF Len(ct) % AES_block_size # 0 THEN Raise("ValueError")
             ELSE _unpad(CBCDecrypt(m_key, iv, ct))

\* ------------------------------------------------------------------------
\* Bounds and input sets
\* ------------------------------------------------------------------------
\* Longest FILES list of a run.
MaxFiles == 2

\* I/O faults the environment injects in one run.
MaxFaults == 1

\* Lock layers put on a file in a relock session.
MaxLayers == 2

\* Paths are sequences of name parts; a suffix is such a sequence too.
PathA == <<"a">>

Locked == <<".locked">>

Suffixes == {<<>>, Locked}

CandPaths == {PathA, PathA \o Locked}

Pw1 == <<115, 101, 99>>

Pw2 == <<120>>

Passwords == {Pw1, Pw2}

IV0 == Rep(0, AES_block_size)

IV1 == [i \in 1..AES_block_size |-> (37 * i) % 256]

IVs == {IV0, IV1}

\* What the random source delivers inside a run of Spec; the codec and
\* relock specifications draw from all of IVs.
RunIVs == {IV1}

Hi == <<104, 105>>

\* File contents a run may meet: empty, short text, a whole pad block of
\* bytes outside the base64 alphabet, base64 text of a bare IV, base64
\* text of an IV and one block that was never encrypted.
Contents ==
    { <<>>, Hi, Rep(9, m_bs),
      Rep(65, 22) \o <<B64Pad, B64Pad>>,
      Rep(65, 43) \o <<B64Pad>> }

\* What may already sit at a.locked: a blob locked with the first password.
OldBlob == encrypt(AESCipher(Pw1), IV1, Hi)

Faults == {"none", "read", "open", "write", "flush", "remove"}

\* ------------------------------------------------------------------------
\* Program state threaded through the functions of one run
\*   fs      existing regular files and their contents
\*   stats   the counters of run()
\*   status  "running", "exit1" (sys.exit(1) from err), "crash" (an
\*           exception nobody catches: traceback, exit status 1)
\*   msgs    messages written while processing the current entry
\*   ops     file-system changes made while processing the current entry
\*   nfaults I/O faults met so far
\* ------------------------------------------------------------------------
Exists(st, path) == path \in DOMAIN st.fs

PutFile(fs, path, data) ==
    [q \in DOMAIN fs \cup {path} |-> IF q = path THEN data ELSE fs[q]]

DelFile(fs, path) == [q \in DOMAIN fs \ {path} |-> fs[q]]

warn(st, what) == [st EXCEPT !.msgs = Append(@, <<"WARNING", what>>)]

\* A variant of err that reports and returns.
err_noexit(st, what) == [st EXCEPT !.msgs = Append(@, <<"ERROR", what>>)]

err(st, what) ==
    [st EXCEPT !.msgs = Append(@, <<"ERROR", what>>), !.status = "exit1"]

get_cont_fct(opts, st, what) ==
    IF opts.cont THEN warn(st, what) ELSE err(st, what)

check_existence(opts, st, path) ==
    IF ~opts.overwrite /\ Exists(st, path)
    THEN get_cont_fct(opts, st, "exists")
    ELSE st

\* read_file: the data, or None after an IOError was reported.
read_file(opts, st, path, fault) ==
    IF fault = "read" \/ ~Exists(st, path)
    THEN [st   |-> get_cont_fct(opts,
                      [st EXCEPT !.nfaults = @ + (IF fault = "read" THEN 1 ELSE 0)],
                      "read"),
          none |-> TRUE, data |-> <<>>]
    ELSE [st   |-> [st EXCEPT !.stats.read = @ + Len(st.fs[path])],
          none |-> FALSE, data |-> st.fs[path]]

\* write_file: open(path, 'wb') creates or empties the file before a byte
\* is written.  "open": the open fails.  "write": the write fails half way.
\* "flush": write() returned, the counter was raised, and the buffered
\* bytes are lost when the file is closed.
write_file(opts, st, path, content, fault) ==
    IF fault = "open" THEN
        [st |-> get_cont_fct(opts, [st EXCEPT !.nfaults = @ + 1], "write"),
         ok |-> FALSE]
    ELSE IF fault = "write" THEN
        [st |-> get_cont_fct(opts,
                    [st EXCEPT !.fs = PutFile(@, path, Take(content, Len(content) \div 2)),
                               !.ops = Append(@, <<"trunc", path>>),
                               !.nfaults = @ + 1],
                    "write"),
         ok |-> FALSE]
    ELSE IF fault = "flush" THEN
        [st |-> get_cont_fct(opts,
                    [st EXCEPT !.fs = PutFile(@, path, <<>>),
                               !.ops = Append(@, <<"trunc", path>>),
                               !.stats.written = @ + Len(content),
                               !.nfaults = @ + 1],
                    "write"),
         ok |-> FALSE]
    ELSE
        [st |-> [st EXCEPT !.fs = PutFile(@, path, content),
                           !.ops = Append(Append(@, <<"trunc", path>>), <<"wrote", path>>),
                           !.stats.written = @ + Len(content)],
         ok |-> TRUE]

\* os.remove(path): an OSError is caught by nobody.
os_remove(st, path, fault) ==
    IF fault = "remove" \/ ~Exists(st, path)
    THEN [st EXCEPT !.status = "crash",
                    !.nfaults = @ + (IF fault = "remove" THEN 1 ELSE 0)]
    ELSE [st EXCEPT !.fs = DelFile(@, path),
                    !.ops = Append(@, <<"remove", path>>)]

\* A variant of the tail that removes the input without comparing names.
write_and_remove_always(opts, st, path, out, data, counter, fault) ==
    LET w == write_file(opts, st, out, data, fault) IN
    IF w.st.status # "running" \/ ~w.ok THEN w.st
    ELSE LET r == os_remove(w.st, path, fault)
         IN  IF r.status # "running" THEN r
             ELSE [r EXCEPT !.stats[counter] = @ + 1]

\* A variant of the tail that does not look at what write_file returned.
write_and_remove_unchecked(opts, st, path, out, data, counter, fault) ==
    LET w == write_file(opts, st, out, data, fault) IN
    IF w.st.status # "running" THEN w.st
    ELSE LET r == IF out # path THEN os_remove(w.st, path, fault) ELSE w.st
         IN  IF r.status # "running" THEN r
             ELSE [r EXCEPT !.stats[counter] = @ + 1]

\* The tail shared by lock_file and unlock_file: write, then remove the
\* input when the names differ, then count.
write_and_remove(opts, st, path, out, data, counter, fault) ==
    LET w == write_file(opts, st, out, data, fault) IN
    IF w.st.status # "running" \/ ~w.ok THEN w.st
    ELSE LET r == IF out # path THEN os_remove(w.st, path, fault) ELSE w.st
         IN  IF r.status # "running" THEN r
             ELSE [r EXCEPT !.stats[counter] = @ + 1]

\* out = path + opts.suffix
lock_out(opts, path) == path \o opts.suffix

\* A variant of the unlock destination that keeps the name.
unlock_out_same(opts, path) == path

\* out = path[:-len(opts.suffix)], or path when the suffix is empty
unlock_out(opts, path) ==
    IF Len(opts.suffix) > 0
    THEN SubSeq(path, 1, Len(path) - Len(opts.suffix))
    ELSE path

lock_file(opts, password, path, st, fault, iv) ==
    LET out == lock_out(opts, path)
        s1 == check_existence(opts, st, out)
        rd == read_file(opts, s1, path, fault)
    IN  IF s1.status # "running" THEN s1
        ELSE IF rd.st.status # "running" \/ rd.none THEN rd.st
        ELSE LET aes == AESCipher(password)
                 data == encrypt(aes, iv, rd.data)
             IN  write_and_remove(opts, rd.st, path, out, data, "locked", fault)

unlock_file(opts, password, path, st, fault) ==
    IF EndsWith(path, opts.suffix) THEN
        LET out == unlock_out(opts, path)
            s1 == check_existence(opts, st, out)
            rd == read_file(opts, s1, path, fault)
        IN  IF s1.status # "running" THEN s1
            ELSE IF rd.st.status # "running" \/ rd.none THEN rd.st
            ELSE LET aes == AESCipher(password)
                     data == decrypt(aes, rd.data)
                 IN  IF data.ok
                     THEN write_and_remove(opts, rd.st, path, out, data.val,
                                           "unlocked", fault)
                     ELSE IF data.exc = "ValueError"
                     THEN get_cont_fct(opts, rd.st, "cipher")
                     ELSE [rd.st EXCEPT !.status = "crash"]
    ELSE [st EXCEPT !.stats.skipped = @ + 1]

process_file(opts, password, path, st, fault, iv) ==
    LET s1 == [st EXCEPT !.stats.files = @ + 1] IN
    IF opts.lock THEN lock_file(opts, password, path, s1, fault, iv)
    ELSE unlock_file(opts, password, path, s1, fault)

\* process: an entry that is no regular file (and, here, no directory) is
\* passed over without a word.
process(opts, password, entry, st, fault, iv) ==
    IF Exists(st, entry) THEN process_file(opts, password, entry, st, fault, iv)
    ELSE st

\* ifp.readlines() of a file opened 'rb': the content cut after each
\* newline, every line keeping its newline.
RECURSIVE readlines(_)
readlines(b) ==
    IF b = <<>> THEN <<>>
    ELSE LET ends == { i \in 1..Len(b) : b[i] = 10 } \cup {Len(b)}
             k == CHOOSE i \in ends : \A j \in ends : i <= j
         IN  <<Take(b, k)>> \o readlines(Drop(b, k))

\* line[0] == '#'.  Under Python 3 a line read 'rb' is bytes and its
\* element a number, which never equals a string; under Python 2 it is
\* the first character.
is_comment(line, py3) == ~py3 /\ line[1] = 35

\* The loop of get_password over the lines.  line.strip() is called for
\* nothing (its result is dropped), so a line is taken as it was read,
\* newline included, and a line of readlines() is never empty.
RECURSIVE first_line(_, _, _)
first_line(lines, i, py3) ==
    IF i > Len(lines) THEN [found |-> FALSE, line |-> <<>>]
    ELSE LET line == lines[i] IN
         IF Len(line) = 0 THEN first_line(lines, i + 1, py3)
         ELSE IF is_comment(line, py3) THEN first_line(lines, i + 1, py3)
         ELSE [found |-> TRUE, line |-> line]

\* get_password: o.password and o.password_file are the values of -P and
\* -p (empty when the option was not given, which is what the code tests),
\* typed the two answers to the prompts, py3 the interpreter.  open() of
\* a file that is not there raises IOError, which nobody catches.
get_password(o, st, typed, py3) ==
    IF o.password # <<>> THEN [st |-> st, password |-> o.password]
    ELSE IF o.password_file # <<>> THEN
        LET st1 == IF Exists(st, o.password_file)
                   THEN err(st, "password file doesn't exist")
                   ELSE st
        IN  IF st1.status # "running" THEN [st |-> st1, password |-> <<>>]
            ELSE IF ~Exists(st1, o.password_file)
            THEN [st |-> [st1 EXCEPT !.status = "crash"], password |-> <<>>]
            ELSE LET f == first_line(readlines(st1.fs[o.password_file]), 1, py3)
                 IN  IF ~f.found
                     THEN [st |-> err(st1, "password was not found"),
                           password |-> <<>>]
                     ELSE [st |-> st1, password |-> f.line]
    ELSE IF typed[1] # typed[2]
         THEN [st |-> err(st, "passwords did not match!"), password |-> <<>>]
         ELSE [st |-> st, password |-> typed[1]]

\* ------------------------------------------------------------------------
\* State
\*   pc        "start" before main(), "loop" inside run(), then how the
\*             process ended: "done" (status 0), "exit1", "crash"
\*   opts, password, FILES   what getopts() and get_password() returned
\*   idx       position of run()'s loop in FILES
\*   fs, stats, msgs, ops, nfaults   as above
\*   pre       the files and counters before the entry last processed
\*   cur       the entry last processed and the fault it met
\*   layers    passwords of the lock layers a relock session has put on
\*   cx        a call looked at on its own (of the codec, of
\*             get_password): its inputs and results
\* ------------------------------------------------------------------------
VARIABLES pc, opts, password, FILES, idx, fs, stats, msgs, ops, nfaults,
          pre, cur, layers, cx

vars == <<pc, opts, password, FILES, idx, fs, stats, msgs, ops, nfaults,
          pre, cur, layers, cx>>

fvars == <<pc, opts, password, FILES, idx, fs, stats, msgs, ops, nfaults,
           pre, cur>>

ZeroStats ==
    [locked |-> 0, unlocked |-> 0, skipped |-> 0, files |-> 0,
     dirs |-> 0, read |-> 0, written |-> 0]

\* argparse's defaults, with lock made the default mode.
DefaultOpts ==
    [lock |-> TRUE, suffix |-> Locked, overwrite |-> FALSE, cont |-> FALSE]

NoEntry == [entry |-> <<>>, fault |-> "none", seen |-> FALSE]

NoCall == [phase |-> "none"]

\* What getopts() can return: --inplace is -o -s '', and each of the two
\* may also be given alone.
AllOpts == [lock : BOOLEAN, suffix : Suffixes, overwrite : BOOLEAN, cont : BOOLEAN]

\* Sequences over S of length 1..n
SeqsUpTo(S, n) == UNION { [1..k -> S] : k \in 1..n }

\* The files a run may find: a with any of the contents, a.locked absent
\* or holding an old blob.
InitFs ==
    { [q \in {PathA} |-> c] : c \in Contents } \cup
    { [q \in CandPaths |-> IF q = PathA THEN c ELSE OldBlob] : c \in Contents }

FileInit(files) ==
    /\ pc = "start"
    /\ opts = DefaultOpts
    /\ password = <<>>
    /\ FILES = <<>>
    /\ idx = 1
    /\ fs \in files
    /\ stats = ZeroStats
    /\ msgs = <<>>
    /\ ops = <<>>
    /\ nfaults = 0
    /\ pre = [fs |-> fs, stats |-> ZeroStats]
    /\ cur = NoEntry

\* main() up to the call of run(): options, password, fresh counters.
main(o, pw, files) ==
    /\ pc \in {"start", "done"}
    /\ opts' = o
    /\ password' = pw
    /\ FILES' = files
    /\ idx' = 1
    /\ stats' = ZeroStats
    /\ msgs' = <<>>
    /\ ops' = <<>>
    /\ nfaults' = 0
    /\ pre' = [fs |-> fs, stats |-> ZeroStats]
    /\ cur' = NoEntry
    /\ pc' = "loop"
    /\ UNCHANGED fs

\* One turn of run()'s loop: process(opts, password, entry, stats).
run_step(fault, iv) ==
    /\ pc = "loop"
    /\ idx <= Len(FILES)
    /\ fault = "none" \/ nfaults < MaxFaults
    /\ LET st == [fs |-> fs, stats |-> stats, status |-> "running",
                  msgs |-> <<>>, ops |-> <<>>, nfaults |-> nfaults]
       IN  \E r \in {process(opts, password, FILES[idx], st, fault, iv)} :
           /\ fs' = r.fs
           /\ stats' = r.stats
           /\ msgs' = r.msgs
           /\ ops' = r.ops
           /\ nfaults' = r.nfaults
           /\ pc' = IF r.status = "running" THEN "loop" ELSE r.status
           /\ idx' = IF r.status = "running" THEN idx + 1 ELSE idx
           /\ cur' = [entry |-> FILES[idx],
                      fault |-> IF r.nfaults > nfaults THEN fault ELSE "none",
                      seen  |-> Exists(st, FILES[idx])]
    /\ pre' = [fs |-> fs, stats |-> stats]
    /\ UNCHANGED <<opts, password, FILES>>

\* The loop is over: the summary is printed and main() returns.
run_end ==
    /\ pc = "loop"
    /\ idx > Len(FILES)
    /\ pc' = "done"
    /\ UNCHANGED <<opts, password, FILES, idx, fs, stats, msgs, ops, nfaults,
                   pre, cur>>

Main ==
    /\ pc = "start"
    /\ \E o \in AllOpts, pw \in Passwords, files \in SeqsUpTo(CandPaths, MaxFiles) :
          main(o, pw, files)
    /\ UNCHANGED <<layers, cx>>

Step ==
    /\ \E fault \in Faults, iv \in RunIVs : run_step(fault, iv)
    /\ UNCHANGED <<layers, cx>>

End ==
    /\ run_end
    /\ UNCHANGED <<layers, cx>>

Init ==
    /\ FileInit(InitFs)
    /\ layers = <<>>
    /\ cx = NoCall

Next == Main \/ Step \/ End

Spec == Init /\ [][Next]_vars
\* ------------------------------------------------------------------------
\* Properties of one run (Spec)
\* ------------------------------------------------------------------------
\* The entry last processed was a regular file and its name fits the mode.
Eligible == cur.seen /\ (opts.lock \/ EndsWith(cur.entry, opts.suffix))

\* The destination of the entry last processed.
CurOut ==
    IF opts.lock THEN lock_out(opts, cur.entry) ELSE unlock_out(opts, cur.entry)

InOps(e) == \E i \in 1..Len(ops) : ops[i] = e

Reported(kinds) == \E i \in 1..Len(msgs) : msgs[i][2] \in kinds

WriteFailed == cur.seen /\ cur.fault \in {"open", "write", "flush"}

SourceKept ==
    /\ cur.entry \in DOMAIN fs
    /\ fs[cur.entry] = pre.fs[cur.entry]

\* C1: the source is removed only after the destination was written in
\* the same operation, and never when destination and source are the same
\* path; a file vanishes only by that removal, and after an in-place lock
\* or unlock the file is still there under its name.
C1_RemoveOnlyAfterWrite ==
    Eligible =>
        /\ \A i \in 1..Len(ops) :
              ops[i][1] = "remove" =>
                 /\ ops[i][2] = cur.entry
                 /\ CurOut # cur.entry
                 /\ \E j \in 1..(i - 1) : ops[j] = <<"wrote", CurOut>>
        /\ \A q \in DOMAIN pre.fs \ DOMAIN fs :
              q = cur.entry /\ InOps(<<"remove", q>>)
        /\ CurOut = cur.entry => cur.entry \in DOMAIN fs

C1_Witness ==
    /\ Eligible
    /\ InOps(<<"remove", cur.entry>>)
    /\ cur.entry \notin DOMAIN fs
    /\ CurOut \in DOMAIN fs

\* C2: with overwrite off and the destination already there, the path is
\* given up and both files stay as they were, whatever cont is; with
\* overwrite on, a lock or unlock that met no error leaves the transformed
\* content at the destination.
C2_OverwriteGuard ==
    Eligible =>
        /\ (~opts.overwrite /\ CurOut \in DOMAIN pre.fs) => fs = pre.fs
        /\ (opts.overwrite /\ msgs = <<>> /\ pc \in {"loop", "done"}) =>
              /\ CurOut \in DOMAIN fs
              /\ InOps(<<"wrote", CurOut>>)

C4_FailureChangesNothing ==
    (opts.cont /\ cur.seen /\ Reported({"read", "cipher", "write"})) => fs = pre.fs

\* C5: with cont on, no error met while processing a file ends the run:
\* the loop goes on to the next entry and the run ends with status 0.
C5_ContNeverEndsRun == opts.cont => pc \notin {"exit1", "crash"}

\* C6: with cont off, the first error ends the run at once with a non-zero
\* status: it is the only message, nothing is written or removed once it
\* is detected, and no further step of the run can be taken.
C6_FirstErrorIsFatal ==
    (~opts.cont /\ pc # "start") =>
        /\ msgs # <<>> =>
              /\ pc = "exit1"
              /\ Len(msgs) = 1
              /\ msgs[1][1] = "ERROR"
              /\ ~InOps(<<"wrote", CurOut>>)
              /\ ~InOps(<<"remove", cur.entry>>)
              /\ cur.entry \in DOMAIN fs
              /\ stats.locked = pre.stats.locked
              /\ stats.unlocked = pre.stats.unlocked
              /\ msgs[1][2] \in {"exists", "read", "cipher"} => fs = pre.fs /\ ops = <<>>
        /\ pc \in {"exit1", "crash"} => ~ENABLED Next

C6_Witness ==
    /\ ~opts.cont
    /\ pc = "exit1"
    /\ idx < Len(FILES)
    /\ FILES[idx + 1] \in DOMAIN fs

\* C10: in unlock mode a path that does not end with the suffix is only
\* counted: skipped and files go up by one, every other counter and every
\* file stay as they were, nothing is reported and the run goes on; the
\* skipped counter moves in no other case, and never with an empty suffix.
Skipped == cur.seen /\ ~opts.lock /\ ~EndsWith(cur.entry, opts.suffix)

C10_SkipOnlyCounts ==
    /\ Skipped =>
          /\ stats = [pre.stats EXCEPT !.skipped = @ + 1, !.files = @ + 1]
          /\ fs = pre.fs
          /\ msgs = <<>>
          /\ ops = <<>>
          /\ pc \in {"loop", "done"}
    /\ stats.skipped # pre.stats.skipped => Skipped
    /\ opts.suffix = <<>> => stats.skipped = 0

C10_Witness ==
    /\ Skipped
    /\ opts.suffix # <<>>
    /\ stats.skipped = 2

\* ------------------------------------------------------------------------
\* The codec on its own: one encrypt call, the blob possibly damaged on
\* the way, one decrypt call with the same or another key.
\* ------------------------------------------------------------------------
\* Longest plaintext handed to encrypt.
MaxRawLen == 64

\* Plaintexts: every length, filled with a low byte (a would-be pad
\* count) or a high one.
Raws == { Rep(b, n) : b \in {1, 200}, n \in 0..MaxRawLen }

\* 32-byte keys: two made from short passwords, one cut from a long one.
Keys == { AESCipher(Pw1), AESCipher(Pw2), AESCipher(Rep(107, m_bs + 8)) }

\* Ways a blob of n characters gets damaged.
Damages == {"chop1", "chop4", "iv_only", "short_iv", "empty"}

Damage(blob, how) ==
    IF how = "chop1" THEN Take(blob, Len(blob) - 1)
    ELSE IF how = "chop4" THEN Take(blob, Len(blob) - 4)
    ELSE IF how = "iv_only" THEN Take(blob, 22) \o <<B64Pad, B64Pad>>
    ELSE IF how = "short_iv" THEN Take(blob, 20)
    ELSE <<>>

CodecInit ==
    /\ FileInit({[q \in {PathA} |-> Hi]})
    /\ layers = <<>>
    /\ cx \in [phase : {"input"}, raw : Raws, key : Keys, iv : IVs,
               padded : {<<>>}, blob : {<<>>}, damaged : {FALSE},
               dkey : {<<>>}, out : {Ok(<<>>)}]

CodecEncrypt ==
    /\ cx.phase = "input"
    /\ cx' = [cx EXCEPT !.phase = "enc",
                        !.padded = _pad(cx.raw),
                        !.blob = encrypt(cx.key, cx.iv, cx.raw)]
    /\ UNCHANGED <<fvars, layers>>

CodecDamage ==
    /\ cx.phase = "enc"
    /\ ~cx.damaged
    /\ \E how \in Damages :
          cx' = [cx EXCEPT !.blob = Damage(@, how), !.damaged = TRUE]
    /\ UNCHANGED <<fvars, layers>>

CodecDecrypt ==
    /\ cx.phase = "enc"
    /\ \E k \in Keys :
          cx' = [cx EXCEPT !.phase = "dec", !.dkey = k,
                           !.out = decrypt(k, cx.blob)]
    /\ UNCHANGED <<fvars, layers>>

CodecNext == CodecEncrypt \/ CodecDamage \/ CodecDecrypt

SpecCodec == CodecInit /\ [][CodecNext]_vars

\* The blob of the call is not base64 text of a 16-byte IV followed by a
\* positive multiple of 16 bytes.
BadBlob ==
    LET d == b64decode(cx.blob) IN
    \/ ~d.ok
    \/ Len(d.val) < 2 * AES_block_size
    \/ Len(d.val) % AES_block_size # 0

\* What the cipher yields for the blob of the call, before unpadding.
Deciphered ==
    LET d == b64decode(cx.blob).val
    IN  CBCDecrypt(cx.dkey, Take(d, AES_block_size), Drop(d, AES_block_size))

LastByte == Deciphered[Len(Deciphered)]

\* C7: decrypt(k, encrypt(k, p)) = p for every plaintext p and key k,
\* whatever IV was drawn, and unpad(pad(p)) = p.
C7_RoundTrip ==
    cx.phase # "none" =>
        /\ _unpad(_pad(cx.raw)) = Ok(cx.raw)
        /\ (cx.phase = "dec" /\ ~cx.damaged /\ cx.dkey = cx.key) =>
              cx.out = Ok(cx.raw)

C7_Witness ==
    /\ cx.phase = "dec"
    /\ ~cx.damaged
    /\ cx.dkey = cx.key
    /\ Len(cx.raw) = 2 * m_bs
    /\ cx.out = Ok(cx.raw)

\* C8 as claimed: decrypt fails whenever the blob is malformed or the
\* last deciphered byte is outside 1..32.
C8_RejectsBadBlobAndBadPad ==
    cx.phase = "dec" =>
        /\ BadBlob => ~cx.out.ok
        /\ (~BadBlob /\ LastByte \notin 1..m_bs) => ~cx.out.ok

\* C8: decrypt fails whenever the blob is malformed; on a well-formed
\* blob it never fails: it returns the deciphered data less its last u
\* bytes, u being the last byte, and nothing at all when u is 0 or at
\* least the length (the outcome of a wrong key).
C8_RejectsBadBlobOnly ==
    cx.phase = "dec" =>
        /\ BadBlob => ~cx.out.ok
        /\ ~BadBlob =>
              /\ cx.out.ok
              /\ Len(cx.out.val) =
                    IF LastByte = 0 THEN 0
                    ELSE Max(Len(Deciphered) - LastByte, 0)
              /\ cx.out.val = Take(Deciphered, Len(cx.out.val))

C8_Witness ==
    /\ cx.phase = "dec"
    /\ cx.damaged
    /\ BadBlob
    /\ cx.out.exc = "ValueError"

\* The number of bytes pad32 is to append to the plaintext of the call.
PadCount == m_bs - (Len(cx.raw) % m_bs)

\* C11: for every input of length n, _pad appends exactly
\* p = 32 - (n mod 32) bytes, each of value p, with p in 1..32, so the
\* padded length is a multiple of 32 and strictly greater than n; inputs
\* of length 0 and 32 get 32 bytes of value 32 (no zero bytes, not entry 0
\* of the table) and an input of length 31 gets one byte of value 1.
C11_PadCount ==
    cx.phase \in {"enc", "dec"} =>
        LET n == Len(cx.raw) IN
        /\ PadCount \in 1..m_bs
        /\ cx.padded = cx.raw \o Rep(PadCount, PadCount)
        /\ Len(cx.padded) = n + PadCount
        /\ \A i \in (n + 1)..Len(cx.padded) : cx.padded[i] = PadCount
        /\ Len(cx.padded) % m_bs = 0
        /\ Len(cx.padded) > n
        /\ cx.padded # cx.raw \o m_pad(0)
        /\ n \in {0, m_bs} => Drop(cx.padded, n) = Rep(m_bs, m_bs)
        /\ n = m_bs - 1 => Drop(cx.padded, n) = <<1>>

C11_Witness ==
    /\ cx.phase = "enc"
    /\ Len(cx.raw) = m_bs
    /\ Len(cx.padded) = 2 * m_bs
    /\ cx.padded[2 * m_bs] = m_bs

\* ------------------------------------------------------------------------
\* A relock session: one file is locked in run after run, each run with
\* a password of its own, and then unlocked in run after run with the
\* passwords in reverse order.  The suffix is not empty and no I/O fails.
\*   layers[i]  the password of the i-th lock and the contents it wrapped
\* ------------------------------------------------------------------------
RECURSIVE WithLayers(_, _)
WithLayers(path, n) == IF n = 0 THEN path ELSE WithLayers(path, n - 1) \o Locked

\* The number of suffixes on the one file of the session.
Depth == Len(CHOOSE q \in DOMAIN fs : TRUE) - 1

RelockOpts == { o \in AllOpts : o.suffix = Locked }

RelockInit ==
    /\ FileInit({ [q \in {PathA} |-> c] : c \in Contents })
    /\ layers = <<>>
    /\ cx = NoCall

RelockLock ==
    /\ pc = "start" \/ opts.lock
    /\ Len(layers) < MaxLayers
    /\ \E o \in RelockOpts, pw \in Passwords :
          /\ o.lock
          /\ main(o, pw, <<WithLayers(PathA, Len(layers))>>)
          /\ layers' = Append(layers, [pw |-> pw, data |-> fs[WithLayers(PathA, Len(layers))]])
    /\ UNCHANGED cx

RelockUnlock ==
    /\ pc = "done"
    /\ Depth > 0
    /\ \E o \in RelockOpts :
          /\ ~o.lock
          /\ main(o, layers[Depth].pw, <<WithLayers(PathA, Depth)>>)
    /\ UNCHANGED <<layers, cx>>

RelockStep ==
    /\ \E iv \in IVs : run_step("none", iv)
    /\ UNCHANGED <<layers, cx>>

RelockEnd ==
    /\ run_end
    /\ UNCHANGED <<layers, cx>>

RelockNext == RelockLock \/ RelockUnlock \/ RelockStep \/ RelockEnd

SpecRelock == RelockInit /\ [][RelockNext]_vars

\* C9: every lock run puts one more suffix on the one file of the session
\* and every unlock run takes exactly one off, giving back the contents
\* that layer wrapped; so after as many unlocks as locks the file has its
\* first name and contents, and no other name is left.
C9_LayersStack ==
    pc = "done" =>
        /\ DOMAIN fs = {WithLayers(PathA, Depth)}
        /\ Depth <= Len(layers)
        /\ DOMAIN pre.fs =
              {WithLayers(PathA, IF opts.lock THEN Depth - 1 ELSE Depth + 1)}
        /\ opts.lock => Depth = Len(layers) /\ stats.locked = 1
        /\ ~opts.lock => stats.unlocked = 1
        /\ Depth < Len(layers) =>
              fs[WithLayers(PathA, Depth)] = layers[Depth + 1].data

C9_Witness ==
    /\ pc = "done"
    /\ ~opts.lock
    /\ Len(layers) = 2
    /\ layers[1].pw # layers[2].pw
    /\ DOMAIN fs = {PathA}
    /\ fs[PathA] = layers[1].data

\* ------------------------------------------------------------------------
\* The password of a run: main() from the options to the end of the run,
\* with the password taken from -P, from the file of -p, or from the
\* prompts.  Nothing fails while the files are processed.
\*   cx   the options -P and -p, the answers typed, the interpreter
\* ------------------------------------------------------------------------
PwPath == <<"pw">>

\* What the password file may hold: a password line; a comment and a
\* password; a blank line and a password; a comment only; nothing.
PwContents ==
    { <<115, 101, 99, 10>>,
      <<35, 99, 10, 115, 101, 99, 10>>,
      <<10, 120, 10>>,
      <<35, 99, 10>>,
      <<>> }

\* a is there; the password file is absent or holds one of the contents.
PwFs ==
    { [q \in {PathA} |-> Hi] } \cup
    { [q \in {PathA, PwPath} |-> IF q = PathA THEN Hi ELSE c] : c \in PwContents }

\* -P and -p exclude each other; the prompts are used with neither.
PwOpts ==
    [phase : {"getpw"}, password : Passwords, password_file : {<<>>},
     typed : {<<Pw1, Pw1>>}, py3 : BOOLEAN] \cup
    [phase : {"getpw"}, password : {<<>>}, password_file : {PwPath},
     typed : {<<Pw1, Pw1>>}, py3 : BOOLEAN] \cup
    [phase : {"getpw"}, password : {<<>>}, password_file : {<<>>},
     typed : Passwords \X Passwords, py3 : BOOLEAN]

\* Options of the runs that follow: the suffix is kept, nothing is
\* overwritten.
PwRunOpts == { o \in AllOpts : o.suffix = Locked /\ ~o.overwrite }

PwInit ==
    /\ FileInit(PwFs)
    /\ layers = <<>>
    /\ cx \in PwOpts

\* main(): password = get_password(opts), then run(opts, password) unless
\* get_password ended the process.
PwMain ==
    /\ pc = "start"
    /\ LET st == [fs |-> fs, stats |-> stats, status |-> "running",
                  msgs |-> <<>>, ops |-> <<>>, nfaults |-> nfaults]
       IN  \E r \in {get_password(cx, st, cx.typed, cx.py3)} :
           IF r.st.status = "running"
           THEN \E o \in PwRunOpts, files \in SeqsUpTo(CandPaths, MaxFiles) :
                    main(o, r.password, files)
           ELSE /\ pc' = r.st.status
                /\ msgs' = r.st.msgs
                /\ UNCHANGED <<opts, password, FILES, idx, fs, stats, ops,
                               nfaults, pre, cur>>
    /\ UNCHANGED <<layers, cx>>

PwStep ==
    /\ \E iv \in RunIVs : run_step("none", iv)
    /\ UNCHANGED <<layers, cx>>

PwEnd ==
    /\ run_end
    /\ UNCHANGED <<layers, cx>>

PwNext == PwMain \/ PwStep \/ PwEnd

SpecPassword == PwInit /\ [][PwNext]_vars

\* The password file was named with -p and -P was not given.
PwFromFile == cx.password = <<>> /\ cx.password_file # <<>>

\* A line less the blanks and line ends around it.
RECURSIVE Strip(_)
Strip(line) ==
    IF line = <<>> THEN <<>>
    ELSE IF line[1] \in {9, 10, 13, 32} THEN Strip(Drop(line, 1))
    ELSE IF line[Len(line)] \in {9, 10, 13, 32} THEN Strip(Take(line, Len(line) - 1))
    ELSE line

\* The lines of the password file that are not blank and do not start
\* with '#', in order; none when the file is not there.
GoodLines ==
    IF PwPath \notin DOMAIN fs THEN <<>>
    ELSE SelectSeq(readlines(fs[PwPath]),
                   LAMBDA l : Strip(l) # <<>> /\ l[1] # 35)

\* get_password ended the process: main() never got to run().
PwFailed == pc \in {"exit1", "crash"} /\ FILES = <<>>

\* run() was entered, with the password get_password returned.
PwReturned == pc \in {"loop", "done"} \/ FILES # <<>>

\* C12: with -p naming an existing file, get_password returns the first
\* line of the file that is not blank and does not start with '#' and
\* the run goes on to lock or unlock with it; the process ends over the
\* password file only when the file is not there or has no such line.
C12_PasswordFile ==
    (pc # "start" /\ PwFromFile) =>
        /\ GoodLines # <<>> =>
              /\ PwReturned
              /\ Strip(password) = Strip(GoodLines[1])
        /\ PwFailed => GoodLines = <<>>
====
